---- MODULE Spec2Model ----
(***************************************************************************)
(* Model of multithread_stubborn_bubble_sort.py: one ThreadedCell thread   *)
(* per value, all mutating the shared list `cells` under one               *)
(* threading.Lock, and the main thread running demo_parallel (start the    *)
(* threads, poll get_values / is_sorted, stop and join the threads).       *)
(* Cell objects are named by the index they were constructed with;         *)
(* `cells` maps a position of the shared list to the cell object stored    *)
(* there.  Each Python statement that touches shared state is one step.    *)
(***************************************************************************)
EXTENDS Integers, Sequences, FiniteSets, TLC

\* ---- bounds ----
NCells == 3
MaxVal == 3
MaxPolls == 2

\* ---- names ----
CellIds == 0 .. (NCells - 1)
Positions == 0 .. (NCells - 1)
Vals == 1 .. MaxVal
Main == NCells
NoCell == NCells
NoIndex == NCells + 1
Directions == {0 - 1, 1}

VARIABLES
    values,     \* demo_parallel: the list handed to the constructor
    marked,     \* demo_parallel: the original indices marked stubborn
    cells,      \* ParallelCellTissue.cells: position -> cell object
    value,      \* ThreadedCell.value
    index,      \* ThreadedCell.index
    stubborn,   \* ThreadedCell.stubborn
    active,     \* ThreadedCell.active
    lock,       \* the shared threading.Lock: {} when free, else {holder}
    wpc,        \* where each cell thread is in run()
    dir,        \* run(): local `direction` (0 outside the critical section)
    nidx,       \* run(): local `neighbor_index`
    nbr,        \* run(): local `neighbor`
    mpc,        \* where the main thread is in demo_parallel
    site,       \* which call of get_values the main thread is in
    k,          \* position of the main thread's iterator over self.cells
    polls,      \* demo_parallel: loop variable i of the monitoring loop
    snap,       \* get_values: the list being built / returned
    jt,         \* stop_sorting: the cell the main thread is joining
    outcome     \* how the monitoring loop ended

vars == << values, marked, cells, value, index, stubborn, active, lock, wpc,
           dir, nidx, nbr, mpc, site, k, polls, snap, jt, outcome >>

wvars == << wpc, dir, nidx, nbr >>
mvars == << mpc, site, k, polls, snap, jt, outcome >>
input == << values, marked >>

\* ---- pure helpers ----

\* the ordered values currently in the arena, as a sequence
ValuesOf(cs, val) == [p \in 1 .. NCells |-> val[cs[p - 1]]]

Arena == ValuesOf(cells, value)

\* is_sorted: all(values[i] <= values[i + 1] for i in range(len(values) - 1))
IsSortedSeq(s) == \A i \in 1 .. (Len(s) - 1) : s[i] <= s[i + 1]

\* number of positions of sequence s holding v
Count(s, v) == Cardinality({i \in 1 .. Len(s) : s[i] = v})

SameMultiset(s, t) == \A v \in Vals : Count(s, v) = Count(t, v)

\* mutant: acquire() that does not wait for the holder
CanAcquireAlways(t) == TRUE

\* lock.acquire() can return only when the lock is not held
CanAcquire(t) == lock = {}

\* mutant: a path that leaves the critical section without releasing
ReleasedNot(l, t) == l

\* lock.release() by thread t (lines 43 and 79)
Released(l, t) == l \ {t}

\* mutant: the stubborn test of line 20 is missing
ShouldSwapWithNoStubborn(c, neighbor_index) ==
    IF neighbor_index < 0 \/ neighbor_index >= NCells THEN FALSE
    ELSE value[c] > value[cells[neighbor_index]]

\* mutant: the stubborn flag tested is the neighbour's, not the cell's own
ShouldSwapWithNbrStubborn(c, neighbor_index) ==
    IF neighbor_index < 0 \/ neighbor_index >= NCells THEN FALSE
    ELSE IF stubborn[cells[neighbor_index]] THEN FALSE
    ELSE value[c] > value[cells[neighbor_index]]

\* mutant: line 25 compares with >= instead of >
ShouldSwapWithGeq(c, neighbor_index) ==
    IF stubborn[c] THEN FALSE
    ELSE IF neighbor_index < 0 \/ neighbor_index >= NCells THEN FALSE
    ELSE value[c] >= value[cells[neighbor_index]]

\* mutant: a stubborn cell swaps whenever its neighbour is in range
ShouldSwapWithStubbornYes(c, neighbor_index) ==
    IF neighbor_index < 0 \/ neighbor_index >= NCells THEN FALSE
    ELSE IF stubborn[c] THEN TRUE
    ELSE value[c] > value[cells[neighbor_index]]

\* ThreadedCell.should_swap_with
ShouldSwapWith(c, neighbor_index) ==
    IF stubborn[c] THEN FALSE
    ELSE IF neighbor_index < 0 \/ neighbor_index >= NCells THEN FALSE
    ELSE value[c] > value[cells[neighbor_index]]

\* mutant: line 39 stores the neighbour but not the cell itself
StoreCellsLost(cs, selfIdx, nIdx, c, n) ==
    [cs EXCEPT ![selfIdx] = n]

\* line 39: self.cells[self.index], self.cells[neighbor_index] = neighbor, self
StoreCells(cs, selfIdx, nIdx, c, n) ==
    [cs EXCEPT ![selfIdx] = n, ![nIdx] = c]

\* mutant: line 40 updates self.index only
StoreIndexSelfOnly(ix, c, n) ==
    [ix EXCEPT ![c] = ix[n]]

\* line 40: self.index, neighbor.index = neighbor.index, self.index
StoreIndex(ix, c, n) ==
    [ix EXCEPT ![c] = ix[n], ![n] = ix[c]]

\* the main thread has neither died of an exception nor returned: the cell
\* threads are daemon threads and die with the program
Running == mpc \notin {"error", "finished"}

\* ---- initial state: after ParallelCellTissue(values) and the marking ----
Init ==
    /\ values \in [Positions -> Vals]
    /\ marked \in SUBSET Positions
    /\ cells = [p \in Positions |-> p]
    /\ value = [c \in CellIds |-> values[c]]
    /\ index = [c \in CellIds |-> c]
    /\ stubborn = [c \in CellIds |-> c \in marked]
    /\ active = [c \in CellIds |-> TRUE]
    /\ lock = {}
    /\ wpc = [c \in CellIds |-> "new"]
    /\ dir = [c \in CellIds |-> 0]
    /\ nidx = [c \in CellIds |-> NoIndex]
    /\ nbr = [c \in CellIds |-> NoCell]
    /\ mpc = "gv_acquire"
    /\ site = "initial"
    /\ k = 0
    /\ polls = 0
    /\ snap = << >>
    /\ jt = NoCell
    /\ outcome = "none"

\* ---- ThreadedCell.run ----

\* mutant: the loop test ignores the flag
LoopContinuesAlways(c) == TRUE

\* mutant: the loop also ends when the arena is sorted
LoopContinuesUntilSorted(c) == active[c] /\ ~IsSortedSeq(Arena)

\* line 29: the test of `while self.active`
LoopContinues(c) == active[c]

\* line 29: while self.active
WLoop(c) ==
    /\ Running
    /\ wpc[c] = "loop"
    /\ wpc' = [wpc EXCEPT ![c] = IF LoopContinues(c) THEN "acquire" ELSE "done"]
    /\ UNCHANGED << input, cells, value, index, stubborn, active, lock,
                    dir, nidx, nbr, mvars >>

\* line 30: self.lock.acquire()
WAcquire(c) ==
    /\ Running
    /\ wpc[c] = "acquire"
    /\ CanAcquire(c)
    /\ lock' = {c}
    /\ wpc' = [wpc EXCEPT ![c] = "cs"]
    /\ UNCHANGED << input, cells, value, index, stubborn, active,
                    dir, nidx, nbr, mvars >>

\* lines 33-38: choose the direction, decide, fetch the neighbour
WDecide(c, d) ==
    /\ Running
    /\ wpc[c] = "cs"
    /\ LET neighbor_index == index[c] + d IN
         /\ dir' = [dir EXCEPT ![c] = d]
         /\ nidx' = [nidx EXCEPT ![c] = neighbor_index]
         /\ IF ShouldSwapWith(c, neighbor_index)
            THEN /\ nbr' = [nbr EXCEPT ![c] = cells[neighbor_index]]
                 /\ wpc' = [wpc EXCEPT ![c] = "swap_cells"]
            ELSE /\ nbr' = nbr
                 /\ wpc' = [wpc EXCEPT ![c] = "release"]
    /\ UNCHANGED << input, cells, value, index, stubborn, active, lock, mvars >>

\* line 39
WSwapCells(c) ==
    /\ Running
    /\ wpc[c] = "swap_cells"
    /\ cells' = StoreCells(cells, index[c], nidx[c], c, nbr[c])
    /\ wpc' = [wpc EXCEPT ![c] = "swap_index"]
    /\ UNCHANGED << input, value, index, stubborn, active, lock,
                    dir, nidx, nbr, mvars >>

\* line 40
WSwapIndex(c) ==
    /\ Running
    /\ wpc[c] = "swap_index"
    /\ index' = StoreIndex(index, c, nbr[c])
    /\ wpc' = [wpc EXCEPT ![c] = "release"]
    /\ UNCHANGED << input, cells, value, stubborn, active, lock,
                    dir, nidx, nbr, mvars >>

\* lines 43-45: release the lock, sleep, go back to the loop test
WRelease(c) ==
    /\ Running
    /\ wpc[c] = "release"
    /\ lock' = Released(lock, c)
    /\ wpc' = [wpc EXCEPT ![c] = "loop"]
    /\ dir' = [dir EXCEPT ![c] = 0]
    /\ nidx' = [nidx EXCEPT ![c] = NoIndex]
    /\ nbr' = [nbr EXCEPT ![c] = NoCell]
    /\ UNCHANGED << input, cells, value, index, stubborn, active, mvars >>

Worker(c) ==
    \/ WLoop(c)
    \/ WAcquire(c)
    \/ \E d \in Directions : WDecide(c, d)
    \/ WSwapCells(c)
    \/ WSwapIndex(c)
    \/ WRelease(c)

\* ---- ParallelCellTissue.get_values ----

\* line 75: self.lock.acquire()
MGvAcquire ==
    /\ mpc = "gv_acquire"
    /\ CanAcquire(Main)
    /\ lock' = {Main}
    /\ mpc' = "gv_read"
    /\ k' = 0
    /\ snap' = << >>
    /\ UNCHANGED << input, cells, value, index, stubborn, active, wvars,
                    site, polls, jt, outcome >>

\* line 77: one step of the list comprehension over self.cells
MGvRead ==
    /\ mpc = "gv_read"
    /\ k < NCells
    /\ snap' = Append(snap, value[cells[k]])
    /\ k' = k + 1
    /\ UNCHANGED << input, cells, value, index, stubborn, active, lock, wvars,
                    mpc, site, polls, jt, outcome >>

\* line 79 and the return to the caller. For the call inside is_sorted the
\* caller evaluates line 84 on the returned list and line 104 branches on it.
\* counted = FALSE models a monitoring loop whose budget never runs out.
MGvReturn(counted) ==
    /\ mpc = "gv_read"
    /\ k = NCells
    /\ lock' = Released(lock, Main)
    /\ k' = 0
    /\ CASE site = "initial" ->
              /\ mpc' = "start"
              /\ snap' = << >>
              /\ UNCHANGED << site, polls, outcome >>
         [] site = "current" ->
              /\ mpc' = "gv_acquire"
              /\ site' = "is_sorted"
              /\ snap' = << >>
              /\ UNCHANGED << polls, outcome >>
         [] site = "is_sorted" ->
              /\ snap' = << >>
              /\ site' = "none"
              /\ IF IsSortedSeq(snap)
                 THEN /\ outcome' = "sorted"
                      /\ mpc' = "stop"
                      /\ polls' = polls
                 ELSE /\ outcome' = outcome
                      /\ mpc' = "poll"
                      /\ polls' = IF counted THEN polls + 1 ELSE polls
         [] site = "final" ->
              /\ mpc' = "finished"
              /\ UNCHANGED << site, polls, snap, outcome >>
    /\ UNCHANGED << input, cells, value, index, stubborn, active, wvars, jt >>

\* ---- ParallelCellTissue.start_sorting ----

\* lines 63-64: one step of `for cell in self.cells: cell.start()`; the
\* iterator reads the shared list at its current position, without the lock.
\* Thread.start() on a thread that was already started raises RuntimeError.
MStart ==
    /\ mpc = "start"
    /\ k < NCells
    /\ LET cell == cells[k] IN
         IF wpc[cell] = "new"
         THEN /\ wpc' = [wpc EXCEPT ![cell] = "loop"]
              /\ k' = k + 1
              /\ mpc' = mpc
         ELSE /\ mpc' = "error"
              /\ UNCHANGED << wpc, k >>
    /\ UNCHANGED << input, cells, value, index, stubborn, active, lock,
                    dir, nidx, nbr, site, polls, snap, jt, outcome >>

MStartDone ==
    /\ mpc = "start"
    /\ k = NCells
    /\ mpc' = "poll"
    /\ k' = 0
    /\ UNCHANGED << input, cells, value, index, stubborn, active, lock, wvars,
                    site, polls, snap, jt, outcome >>

\* ---- demo_parallel: the monitoring loop ----

\* mutant: the loop allows one poll more than the budget
BudgetLeftOffByOne(n) == n <= MaxPolls

\* line 100: `for i in range(20)` has another value of i to hand out
BudgetLeft(n) == n < MaxPolls

\* lines 100-102: next i of range(MaxPolls), sleep, then get_values()
MPoll ==
    /\ mpc = "poll"
    /\ IF BudgetLeft(polls)
       THEN /\ mpc' = "gv_acquire"
            /\ site' = "current"
            /\ outcome' = outcome
       ELSE /\ mpc' = "stop"
            /\ site' = site
            /\ outcome' = "budget"
    /\ UNCHANGED << input, cells, value, index, stubborn, active, lock, wvars,
                    k, polls, snap, jt >>

\* ---- ParallelCellTissue.stop_sorting ----

\* lines 68-69: one step of `for cell in self.cells: cell.stop()`
MStop ==
    /\ mpc = "stop"
    /\ k < NCells
    /\ active' = [active EXCEPT ![cells[k]] = FALSE]
    /\ k' = k + 1
    /\ UNCHANGED << input, cells, value, index, stubborn, lock, wvars,
                    mpc, site, polls, snap, jt, outcome >>

MStopDone ==
    /\ mpc = "stop"
    /\ k = NCells
    /\ mpc' = "join"
    /\ k' = 0
    /\ UNCHANGED << input, cells, value, index, stubborn, active, lock, wvars,
                    site, polls, snap, jt, outcome >>

\* line 70: the iterator of the second loop yields the cell at its position.
\* Thread.join() on a thread that was never started raises RuntimeError.
MJoinPick ==
    /\ mpc = "join"
    /\ k < NCells
    /\ IF wpc[cells[k]] = "new"
       THEN /\ mpc' = "error"
            /\ jt' = jt
       ELSE /\ mpc' = "join_wait"
            /\ jt' = cells[k]
    /\ UNCHANGED << input, cells, value, index, stubborn, active, lock, wvars,
                    site, k, polls, snap, outcome >>

\* line 71: cell.join() returns once that thread has left run()
MJoinWait ==
    /\ mpc = "join_wait"
    /\ wpc[jt] = "done"
    /\ mpc' = "join"
    /\ k' = k + 1
    /\ jt' = NoCell
    /\ UNCHANGED << input, cells, value, index, stubborn, active, lock, wvars,
                    site, polls, snap, outcome >>

\* line 109: the final get_values()
MJoinDone ==
    /\ mpc = "join"
    /\ k = NCells
    /\ mpc' = "gv_acquire"
    /\ site' = "final"
    /\ k' = 0
    /\ UNCHANGED << input, cells, value, index, stubborn, active, lock, wvars,
                    polls, snap, jt, outcome >>

Starter ==
    \/ MStart
    \/ MStartDone

Monitor(counted) ==
    \/ MGvAcquire
    \/ MGvRead
    \/ MGvReturn(counted)
    \/ MPoll

Stopper ==
    \/ MStop
    \/ MStopDone
    \/ MJoinPick
    \/ MJoinWait
    \/ MJoinDone

Next ==
    \/ \E c \in CellIds : Worker(c)
    \/ Starter
    \/ Monitor(TRUE)
    \/ Stopper

Spec == Init /\ [][Next]_vars

\* ---- vocabulary of the properties ----

\* the constructor's argument as a sequence
InitialSeq == [p \in 1 .. NCells |-> values[p - 1]]

\* the pcs of run() between lock.acquire() and lock.release()
CriticalPcs == {"cs", "swap_cells", "swap_index", "release"}

InCritical(c) == wpc[c] \in CriticalPcs

\* every worker thread has been started
AllStarted == \A c \in CellIds : wpc[c] # "new"

SomeWorkerLive == \E c \in CellIds : wpc[c] \notin {"new", "done"}

\* worker c has completed lines 39-40 and has not yet released the lock
SwapDone(c) == wpc[c] = "release" /\ nbr[c] # NoCell

\* C1: in every reachable state the arena has the length it was built with
\* and holds exactly the multiset of the initial values.
C1_ContentConserved ==
    /\ DOMAIN cells = Positions
    /\ Len(Arena) = NCells
    /\ SameMultiset(Arena, InitialSeq)

\* C1 witness: with a stubborn cell present, swaps have rearranged the arena
C1_Witness ==
    /\ marked # {}
    /\ Arena # InitialSeq
    /\ \E c \in CellIds : SwapDone(c)

\* C2: while get_values builds its list the lock is the main thread's, no
\* worker is inside its critical section, and what has been read so far is
\* the corresponding prefix of the arena as it is now: the finished list is
\* the arena of one instant, a rearrangement of the initial values.
C2_SnapshotConsistent ==
    mpc = "gv_read" =>
        /\ lock = {Main}
        /\ \A c \in CellIds : ~InCritical(c)
        /\ Len(snap) = k
        /\ snap = SubSeq(Arena, 1, k)
        /\ (k = NCells => SameMultiset(snap, InitialSeq))

\* C2 witness: a finished snapshot, taken while workers are live and waiting
\* for the lock, of an arena that swaps have already rearranged
C2_Witness ==
    /\ mpc = "gv_read"
    /\ k = NCells
    /\ snap # InitialSeq
    /\ \E c \in CellIds : wpc[c] = "acquire"

\* the main thread's next step reads self.cells
MainReadsCells ==
    \/ mpc = "gv_read" /\ k < NCells
    \/ mpc \in {"start", "stop", "join"} /\ k < NCells

\* C3: at most one thread is in the critical section, and once the workers
\* have been started every thread about to read or write the cells list or
\* an index field holds the lock.
C3_AllAccessUnderLock ==
    /\ Cardinality({c \in CellIds : InCritical(c)}
                   \cup (IF mpc = "gv_read" THEN {Main} ELSE {})) <= 1
    /\ \A c \in CellIds : InCritical(c) => lock = {c}
    /\ (AllStarted /\ SomeWorkerLive /\ MainReadsCells) => lock = {Main}

\* C4 (decision): leaving line 36, the worker goes on to swap exactly when it
\* is not stubborn, the neighbour index is in range and its value is strictly
\* greater than the neighbour's; otherwise it goes to the release with the
\* arena, the index fields and the lock as they were.
C4_Decide(c) ==
    (wpc[c] = "cs" /\ wpc'[c] # "cs") =>
        LET ni == index[c] + dir'[c] IN
          /\ dir'[c] \in Directions
          /\ nidx'[c] = ni
          /\ (wpc'[c] = "swap_cells") <=>
                (~stubborn[c] /\ ni \in Positions /\ value[c] > value[cells[ni]])
          /\ (wpc'[c] = "swap_cells") => nbr'[c] = cells[ni]
          /\ (wpc'[c] # "swap_cells") => wpc'[c] = "release" /\ nbr'[c] = NoCell
          /\ cells' = cells /\ index' = index /\ lock' = lock

\* C4 (release): the release step frees the lock and touches nothing else of
\* the arena.
C4_Release(c) ==
    (wpc[c] = "release" /\ wpc'[c] # "release") =>
        /\ lock = {c} /\ lock' = {}
        /\ cells' = cells /\ index' = index

\* C4 (swap): when lines 39-40 are done, the cell sits at the neighbour index
\* and the neighbour at the cell's old position, with matching index fields.
C4_Swapped(c) ==
    SwapDone(c) =>
        /\ index[c] = nidx[c]
        /\ cells[nidx[c]] = c
        /\ cells[nidx[c] - dir[c]] = nbr[c]
        /\ index[nbr[c]] = nidx[c] - dir[c]

\* C4: one worker iteration swaps the cell with the neighbour it examined if
\* and only if it is not stubborn, the neighbour index is in range and its own
\* value is strictly greater; in every other case the arena and the index
\* fields stay unchanged; the iteration ends by releasing the lock.
C4_IterationRule ==
    /\ [](\A c \in CellIds : C4_Swapped(c))
    /\ [][\A c \in CellIds : C4_Decide(c) /\ C4_Release(c)]_vars

\* C4 witness: a swap has been completed and, in the same run, another worker
\* is at the release after deciding not to swap
C4_Witness ==
    \E c \in CellIds :
        /\ wpc[c] = "release"
        /\ nbr[c] = NoCell
        /\ dir[c] # 0
        /\ ~stubborn[c]
        /\ nidx[c] \in Positions
        /\ cells # [p \in Positions |-> p]

\* C5: right after a worker's swap the two adjacent slots involved hold their
\* values in non-decreasing left-to-right order.
C5_SwapOrdersPair ==
    \A c \in CellIds :
        SwapDone(c) =>
            LET a == index[c]
                b == index[nbr[c]]
                lo == IF a < b THEN a ELSE b
            IN  value[cells[lo]] <= value[cells[lo + 1]]

\* C6: outside a critical section every cell's index field is its position
\* in the list, so the index fields are a permutation of the positions.
C6_IndexMatchesPosition ==
    (\A c \in CellIds : ~InCritical(c)) =>
        /\ \A c \in CellIds : index[c] \in Positions /\ cells[index[c]] = c
        /\ \A p \in Positions : index[cells[p]] = p
        /\ {index[c] : c \in CellIds} = Positions

\* C6 witness: the lock is free and some cell has moved from where it started
C6_Witness ==
    /\ lock = {}
    /\ \A c \in CellIds : ~InCritical(c)
    /\ \E c \in CellIds : index[c] # c

\* C8: with every slot marked stubborn the list, the arena and every snapshot
\* stay as constructed.
C8_AllStubbornFrozen ==
    (marked = Positions) =>
        /\ cells = [p \in Positions |-> p]
        /\ Arena = InitialSeq
        /\ snap = SubSeq(InitialSeq, 1, Len(snap))

\* C8 witness: all stubborn, an unsorted input, and the whole run is over
C8_Witness ==
    /\ marked = Positions
    /\ ~IsSortedSeq(InitialSeq)
    /\ mpc = "finished"
    /\ outcome = "budget"

\* C9: every step that changes the arena is line 39 executed by a worker that
\* holds the lock and is not stubborn.
C9_OnlyNonStubbornInitiates ==
    [][(cells' # cells \/ index' # index) =>
          \E c \in CellIds :
              /\ wpc[c] \in {"swap_cells", "swap_index"}
              /\ wpc'[c] # wpc[c]
              /\ lock = {c}
              /\ ~stubborn[c]]_vars

\* C9 witness: stubborn and non-stubborn cells mixed, and a swap in progress
C9_Witness ==
    /\ marked # {}
    /\ marked # Positions
    /\ \E c \in CellIds : wpc[c] = "swap_index"

\* the (value, stubborn) pairs present at the positions of the list
PairCount(v, b) ==
    Cardinality({p \in Positions : value[cells[p]] = v /\ stubborn[cells[p]] = b})

InitialPairCount(v, b) ==
    Cardinality({p \in Positions : values[p] = v /\ (p \in marked) = b})

\* C10: the stubborn flag stays with the value it was set on (the arena holds
\* the same (value, flag) pairs as at construction), and a stubborn cell
\* changes position only as the neighbour picked by a non-stubborn worker.
C10_StubbornTravels ==
    /\ [](\A v \in Vals : \A b \in BOOLEAN :
              PairCount(v, b) = InitialPairCount(v, b))
    /\ [][\A c \in CellIds :
              (stubborn[c] /\ index'[c] # index[c]) =>
                  \E w \in CellIds :
                      /\ w # c
                      /\ ~stubborn[w]
                      /\ lock = {w}
                      /\ nbr[w] = c]_vars

\* C10 witness: a stubborn cell at rest at a position other than its first
C10_Witness ==
    /\ lock = {}
    /\ \E c \in CellIds : stubborn[c] /\ index[c] # c /\ cells[index[c]] = c

\* ---- a run with no stubborn slot and a monitoring budget that never runs out ----

\* every thread has just been started by start_sorting and none has run yet;
\* the main thread is about to enter the monitoring loop
LiveInit ==
    /\ values \in [Positions -> Vals]
    /\ marked = {}
    /\ cells = [p \in Positions |-> p]
    /\ value = [c \in CellIds |-> values[c]]
    /\ index = [c \in CellIds |-> c]
    /\ stubborn = [c \in CellIds |-> FALSE]
    /\ active = [c \in CellIds |-> TRUE]
    /\ lock = {}
    /\ wpc = [c \in CellIds |-> "loop"]
    /\ dir = [c \in CellIds |-> 0]
    /\ nidx = [c \in CellIds |-> NoIndex]
    /\ nbr = [c \in CellIds |-> NoCell]
    /\ mpc = "poll"
    /\ site = "initial"
    /\ k = 0
    /\ polls = 0
    /\ snap = << >>
    /\ jt = NoCell
    /\ outcome = "none"

LiveNext ==
    \/ \E c \in CellIds : Worker(c)
    \/ Monitor(FALSE)
    \/ Stopper

\* every thread keeps being scheduled; a thread waiting for the lock gets it
\* in the end, because each worker sleeps (line 45) after every release; and
\* random.choice keeps returning each of the two directions
LiveFairness ==
    /\ \A c \in CellIds : WF_vars(Worker(c))
    /\ \A c \in CellIds : SF_vars(WAcquire(c))
    /\ \A c \in CellIds : \A d \in Directions : SF_vars(WDecide(c, d))
    /\ WF_vars(Monitor(FALSE) \/ Stopper)
    /\ SF_vars(MGvAcquire)

LiveSpec == LiveInit /\ [][LiveNext]_vars /\ LiveFairness

StopReturned == site = "final"

\* C11: stop_sorting() returns only after every worker thread has left run(),
\* and once it has returned the arena never changes again.
C11_StopQuiesces ==
    /\ [](StopReturned => \A c \in CellIds : wpc[c] = "done")
    /\ [][StopReturned => cells' = cells]_vars

\* ---- a whole monitored run under fair scheduling ----

\* the inputs of the fair runs: distinct values, in increasing or in
\* decreasing order
FairInputs ==
    {v \in [Positions -> Vals] :
        \/ \A p, q \in Positions : p < q => v[p] < v[q]
        \/ \A p, q \in Positions : p < q => v[p] > v[q]}

\* every thread has just been started by start_sorting and none has run yet;
\* the main thread is about to enter the monitoring loop
FairInit ==
    /\ values \in FairInputs
    /\ marked = {}
    /\ cells = [p \in Positions |-> p]
    /\ value = [c \in CellIds |-> values[c]]
    /\ index = [c \in CellIds |-> c]
    /\ stubborn = [c \in CellIds |-> FALSE]
    /\ active = [c \in CellIds |-> TRUE]
    /\ lock = {}
    /\ wpc = [c \in CellIds |-> "loop"]
    /\ dir = [c \in CellIds |-> 0]
    /\ nidx = [c \in CellIds |-> NoIndex]
    /\ nbr = [c \in CellIds |-> NoCell]
    /\ mpc = "poll"
    /\ site = "initial"
    /\ k = 0
    /\ polls = 0
    /\ snap = << >>
    /\ jt = NoCell
    /\ outcome = "none"

FairNext ==
    \/ \E c \in CellIds : Worker(c)
    \/ Monitor(TRUE)
    \/ Stopper

\* every thread keeps being scheduled, and a thread waiting for the lock gets
\* it in the end, because each worker sleeps (line 45) after every release
FairScheduling ==
    /\ \A c \in CellIds : WF_vars(Worker(c))
    /\ \A c \in CellIds : SF_vars(WAcquire(c))
    /\ WF_vars(Monitor(TRUE) \/ Stopper)
    /\ SF_vars(MGvAcquire)

FairSpec == FairInit /\ [][FairNext]_vars /\ FairScheduling

\* the order of the statements of one iteration of run(), from the lock
\* request to the loop test
IterationOrder(pc) ==
    CASE pc = "acquire" -> 1
      [] pc = "cs" -> 2
      [] pc = "swap_cells" -> 3
      [] pc = "swap_index" -> 4
      [] pc = "release" -> 5
      [] pc = "loop" -> 6
      [] pc = "done" -> 7
      [] OTHER -> 0

\* C12 (safety): once its flag is false a started worker only moves forward
\* through the iteration it is in and from the loop test it leaves run(): it
\* never passes the loop test again, so it reaches line 39 at most once more;
\* the flag never becomes true again.
C12_NoNewIteration(c) ==
    (~active[c] /\ wpc[c] # "new") =>
        /\ ~active'[c]
        /\ IterationOrder(wpc'[c]) >= IterationOrder(wpc[c])
        /\ (wpc[c] = "loop" /\ wpc'[c] # "loop") => wpc'[c] = "done"

\* C12: after a started worker's flag has been set to false it begins no new
\* iteration, and under fair scheduling it eventually leaves run() (or the
\* program ends first and the daemon thread dies with it).
C12_StopsAfterFlag ==
    /\ [][\A c \in CellIds : C12_NoNewIteration(c)]_vars
    /\ \A c \in CellIds :
          (~active[c] /\ wpc[c] # "new") ~> (wpc[c] = "done" \/ ~Running)

\* C12 witness: a worker whose flag is already false is completing a swap
C12_Witness ==
    \E c \in CellIds : ~active[c] /\ wpc[c] = "swap_index"

\* C13: a worker leaves run() only from the loop test and only with its flag
\* false: while the flag is true it stays in the loop, sorted arena or not.
C13_ExitsOnlyOnRequest ==
    /\ [](\A c \in CellIds : wpc[c] = "done" => ~active[c])
    /\ [][\A c \in CellIds :
              (wpc[c] # "done" /\ wpc'[c] = "done") =>
                  (wpc[c] = "loop" /\ ~active[c])]_vars

\* C13 witness: the arena has been sorted by swaps and a worker whose flag is
\* true is inside yet another iteration
C13_Witness ==
    /\ IsSortedSeq(Arena)
    /\ Arena # InitialSeq
    /\ \E c \in CellIds : active[c] /\ wpc[c] = "cs"

\* C14: the main thread takes at most MaxPolls polls and, under fair
\* scheduling, the run reaches the point where stop_sorting() has returned,
\* every worker joined.
C14_RunTerminates ==
    /\ [](polls <= MaxPolls)
    /\ <>StopReturned

\* the coordinator's state: 0 Idle (up to the return of start_sorting, or
\* dead of the exception start() raised), 1 Running (the monitoring loop),
\* 2 Stopping (inside stop_sorting), 3 Stopped (stop_sorting has returned)
Phase ==
    CASE mpc \in {"start", "error"} -> 0
      [] mpc \in {"gv_acquire", "gv_read"} /\ site = "initial" -> 0
      [] mpc = "poll" -> 1
      [] mpc \in {"gv_acquire", "gv_read"} /\ site \in {"current", "is_sorted"} -> 1
      [] mpc \in {"stop", "join", "join_wait"} -> 2
      [] OTHER -> 3

\* the main thread's next step is the return of the get_values() call made by
\* is_sorted()
AtSortedTest == mpc = "gv_read" /\ k = NCells /\ site = "is_sorted"

\* C15: the coordinator moves Idle -> Running -> Stopping -> Stopped one state
\* at a time and never backwards; it leaves Running exactly when a poll finds
\* the snapshot sorted or the budget is used up; and it is Stopped only once
\* every worker has left run().
C15_CoordinatorPhases ==
    /\ [][Phase' = Phase \/ Phase' = Phase + 1]_vars
    /\ [][(Phase = 1 /\ mpc' # mpc) =>
              (Phase' = 2 <=>
                  \/ AtSortedTest /\ IsSortedSeq(snap)
                  \/ mpc = "poll" /\ polls >= MaxPolls)]_vars
    /\ [](Phase = 3 => \A c \in CellIds : wpc[c] = "done")

\* ---- the lock ----

\* C16 (safety): the lock has at most one holder; whoever holds it is between
\* its acquire and its release; and as long as the program runs some thread
\* can take a step.
C16_Safe ==
    /\ Cardinality(lock) <= 1
    /\ \A c \in CellIds : (lock = {c}) <=> InCritical(c)
    /\ (lock = {Main}) <=> (mpc = "gv_read")
    /\ Running => ENABLED FairNext

\* C16: no deadlock: the lock is released on every path, some thread can
\* always step while the program runs, and under fair scheduling a thread
\* waiting for the lock obtains it (unless the program ends first).
C16_NoDeadlock ==
    /\ []C16_Safe
    /\ \A c \in CellIds : (wpc[c] = "acquire") ~> (wpc[c] = "cs" \/ ~Running)
    /\ (mpc = "gv_acquire") ~> (mpc = "gv_read")

\* C16 witness: the main thread and every live worker are waiting for the
\* lock, which a worker holds
C16_Witness ==
    /\ mpc = "gv_acquire"
    /\ \E c \in CellIds :
          /\ lock = {c}
          /\ \A w \in CellIds \ {c} : wpc[w] = "acquire"

\* ---- construction and is_sorted() on an arena of any length ----

\* the lists handed to the constructor: every length from 0 to NCells
BuildInputs == UNION {[0 .. (n - 1) -> Vals] : n \in 0 .. NCells}

\* len(self.cells)
LenCells == Cardinality(DOMAIN cells)

\* mutant: a constructor that refuses the empty list
ConstructorRejectsEmpty(vs) == DOMAIN vs # {}

\* lines 52-59: __init__ checks nothing about `values`
ConstructorAccepts(vs) == TRUE

\* mutant: line 84 compares with < instead of <=
PairOrderedStrict(a, b) == a < b

\* line 84: values[i] <= values[i + 1]
PairOrdered(a, b) == a <= b

\* before ParallelCellTissue(values) is called
BuildInit ==
    /\ values \in BuildInputs
    /\ marked = {}
    /\ cells = << >>
    /\ value = << >>
    /\ index = << >>
    /\ stubborn = << >>
    /\ active = << >>
    /\ lock = {}
    /\ wpc = << >>
    /\ dir = << >>
    /\ nidx = << >>
    /\ nbr = << >>
    /\ mpc = "construct"
    /\ site = "none"
    /\ k = 0
    /\ polls = 0
    /\ snap = << >>
    /\ jt = NoCell
    /\ outcome = "none"

\* lines 52-59: ParallelCellTissue.__init__, then the call of is_sorted()
BConstruct ==
    /\ mpc = "construct"
    /\ IF ConstructorAccepts(values)
       THEN /\ cells = << >>
            /\ cells' = [p \in DOMAIN values |-> p]
            /\ value' = [c \in DOMAIN values |-> values[c]]
            /\ index' = [c \in DOMAIN values |-> c]
            /\ stubborn' = [c \in DOMAIN values |-> FALSE]
            /\ active' = [c \in DOMAIN values |-> TRUE]
            /\ wpc' = [c \in DOMAIN values |-> "new"]
            /\ mpc' = "b_acquire"
       ELSE /\ mpc' = "error"
            /\ UNCHANGED << cells, value, index, stubborn, active, wpc >>
    /\ UNCHANGED << input, lock, dir, nidx, nbr, site, k, polls, snap, jt,
                    outcome >>

\* line 75, called from line 83
BGvAcquire ==
    /\ mpc = "b_acquire"
    /\ CanAcquire(Main)
    /\ lock' = {Main}
    /\ mpc' = "b_read"
    /\ k' = 0
    /\ snap' = << >>
    /\ UNCHANGED << input, cells, value, index, stubborn, active, wvars,
                    site, polls, jt, outcome >>

\* line 77: one step of the list comprehension
BGvRead ==
    /\ mpc = "b_read"
    /\ k < LenCells
    /\ snap' = Append(snap, value[cells[k]])
    /\ k' = k + 1
    /\ UNCHANGED << input, cells, value, index, stubborn, active, lock, wvars,
                    mpc, site, polls, jt, outcome >>

\* line 79: release, and the list goes back to is_sorted()
BGvReturn ==
    /\ mpc = "b_read"
    /\ k = LenCells
    /\ lock' = Released(lock, Main)
    /\ mpc' = "b_all"
    /\ k' = 0
    /\ UNCHANGED << input, cells, value, index, stubborn, active, wvars,
                    site, polls, snap, jt, outcome >>

\* line 84: one step of all(...) over i in range(len(values) - 1); all()
\* returns False at the first pair out of order and True when the range ends
BAllStep ==
    /\ mpc = "b_all"
    /\ IF k >= Len(snap) - 1
       THEN /\ outcome' = "sorted"
            /\ mpc' = "b_ret"
            /\ k' = k
       ELSE IF PairOrdered(snap[k + 1], snap[k + 2])
       THEN /\ outcome' = outcome
            /\ mpc' = mpc
            /\ k' = k + 1
       ELSE /\ outcome' = "unsorted"
            /\ mpc' = "b_ret"
            /\ k' = k
    /\ UNCHANGED << input, cells, value, index, stubborn, active, lock, wvars,
                    site, polls, snap, jt >>

BuildNext ==
    \/ BConstruct
    \/ BGvAcquire
    \/ BGvRead
    \/ BGvReturn
    \/ BAllStep

BuildSpec == BuildInit /\ [][BuildNext]_vars

\* C17: is_sorted() returns true if and only if the snapshot it took is
\* non-decreasing, value[k] <= value[k+1] for every adjacent pair, equal
\* neighbours included; for an arena of length 0 or 1 it returns true. The
\* step-by-step result is also the one IsSortedSeq gives in one step.
C17_IsSortedIffNonDecreasing ==
    mpc = "b_ret" =>
        /\ snap = [p \in 1 .. LenCells |-> value[cells[p - 1]]]
        /\ (outcome = "sorted") <=>
              (\A i \in 1 .. (Len(snap) - 1) : snap[i] <= snap[i + 1])
        /\ (outcome = "sorted") <=>
              (\A i, j \in 1 .. Len(snap) : i < j => snap[i] <= snap[j])
        /\ (outcome = "sorted") <=> IsSortedSeq(snap)
        /\ outcome \in {"sorted", "unsorted"}
        /\ Len(snap) <= 1 => outcome = "sorted"

\* C17 witness: a full-length snapshot with two equal neighbours found sorted
C17_Witness ==
    /\ mpc = "b_ret"
    /\ outcome = "sorted"
    /\ Len(snap) = NCells
    /\ \E i \in 1 .. (Len(snap) - 1) : snap[i] = snap[i + 1]

\* C19: constructing an arena from an empty sequence fails: the call ends in
\* an error and no arena is created.
C19_EmptyRejected ==
    (DOMAIN values = {}) => (mpc \in {"construct", "error"} /\ cells = << >>)

\* C19 as amended: constructing an arena from an empty sequence succeeds; the
\* arena has no cell and no worker, its snapshot is empty and is_sorted() is
\* true.
C19_EmptyAccepted ==
    (DOMAIN values = {} /\ mpc # "construct") =>
        /\ mpc # "error"
        /\ cells = << >>
        /\ wpc = << >>
        /\ snap = << >>
        /\ mpc = "b_ret" => outcome = "sorted"

\* C19 witness: the empty arena was built and is_sorted() has returned
C19_Witness ==
    /\ DOMAIN values = {}
    /\ mpc = "b_ret"

\* C18: when the monitoring loop has ended, the outcome tells why: it is
\* "sorted" exactly when a poll's is_sorted() returned true, the last budgeted
\* poll included, and "budget" exactly when every budgeted poll returned
\* false. `polls` counts the polls that returned false.
C18_OutcomeTellsReason ==
    /\ [](/\ Phase < 2 => outcome = "none"
          /\ Phase >= 2 => outcome \in {"sorted", "budget"}
          /\ outcome = "budget" <=> (Phase >= 2 /\ polls = MaxPolls)
          /\ outcome = "sorted" <=> (Phase >= 2 /\ polls < MaxPolls))
    /\ [][(AtSortedTest /\ mpc' # mpc) =>
              /\ IsSortedSeq(snap) <=> outcome' = "sorted"
              /\ IsSortedSeq(snap) => polls' = polls
              /\ ~IsSortedSeq(snap) => (polls' = polls + 1 /\ outcome' = "none")]_vars
    /\ [][outcome' # outcome =>
              /\ outcome = "none"
              /\ \/ outcome' = "sorted" /\ AtSortedTest /\ IsSortedSeq(snap)
                 \/ outcome' = "budget" /\ mpc = "poll" /\ polls = MaxPolls]_vars

\* C18 witness: a run that ended because its last budgeted poll was sorted
C18_Witness ==
    /\ mpc = "finished"
    /\ outcome = "sorted"
    /\ polls = MaxPolls - 1

\* C20: if the monitoring loop stopped because a poll found the arena sorted,
\* the final get_values(), taken after stop_sorting() has returned, is
\* non-decreasing.
C20_SortedStaysSorted ==
    (mpc = "finished" /\ outcome = "sorted") => IsSortedSeq(snap)

\* C21: a sorted arena is a fixed point of the workers: from a state whose
\* arena is non-decreasing no step changes the arena, so a snapshot found
\* sorted stays sorted.
C21_SortedIsFixedPoint ==
    [][IsSortedSeq(Arena) => Arena' = Arena]_vars

\* ---- the sequential linked-list sorts ----
\* cell_bubble_sort.py and stubborn_cell_bubble_sort.py are single-threaded.
\* Their objects live in `cells` (cell id -> the object's fields), `site` names
\* the file that runs, `mpc` is the position in it, `k` is the loop variable i
\* of sort(), `outcome` the value sort_step() returned, `snap` the to_list()
\* taken when sort() has returned. The other names of the source are:

\* the longest list sorted
MaxLen == 4

\* Python's None where a cell is expected; the cells are 0 .. MaxLen - 1
None == MaxLen

\* the lists handed to CellTissue(values): every length from 0 to MaxLen
SeqInputs == UNION {[0 .. (n - 1) -> Vals] : n \in 0 .. MaxLen}

\* CellTissue.head (a cell, or None)
head == jt

\* CellTissue.size
size == nbr

\* sort_step: current
current == nidx

\* sort_step: swapped
swapped == active

\* sort: iterations
iterations == polls

\* sort: max_iterations (NoLimit for None)
max_iterations == index

\* sort: verbose
verbose == dir

\* bookkeeping of the run, not program state: swaps made in the current pass,
\* passes made in this run, passes made after one that returned False, the
\* list at the start of the current pass, whether max_iterations was left at
\* its default, and what the previous run on the same input ended with
history == wpc

\* max_iterations=None
NoLimit == 0 - 1

\* the largest explicit max_iterations tried
MaxIter == 2

\* the two files
Plain == "cell_bubble_sort"
Stubborn == "stubborn_cell_bubble_sort"

\* the argument list as a sequence
InputSeq == [p \in 1 .. Cardinality(DOMAIN values) |-> values[p - 1]]

\* the neighbour pointers of either file's cells
RightOf(h, c) == IF site = Plain THEN h[c].right_neighbor ELSE h[c].next
LeftOf(h, c) == IF site = Plain THEN h[c].left_neighbor ELSE h[c].prev

\* the cells met from c by following the right/next pointers, at most `fuel`
\* of them (to_list's `while current` walk, cut off so that a cycle shows as a
\* walk longer than the list)
RECURSIVE WalkFrom(_, _, _)
WalkFrom(h, c, fuel) ==
    IF c = None \/ fuel = 0 THEN << >>
    ELSE << c >> \o WalkFrom(h, RightOf(h, c), fuel - 1)

\* to_list(): the values met from head
ToList(h, hd) ==
    LET w == WalkFrom(h, hd, MaxLen + 1)
    IN  [p \in 1 .. Len(w) |-> h[w[p]].value]

\* ---- cell_bubble_sort.py ----

\* lines 73-80: the cells of a non-empty list, linked left to right
LinkCells(vs) ==
    LET n == Cardinality(DOMAIN vs)
    IN  [c \in DOMAIN vs |->
            [value |-> vs[c],
             left_neighbor |-> IF c > 0 THEN c - 1 ELSE None,
             right_neighbor |-> IF c < n - 1 THEN c + 1 ELSE None]]

\* mutant: the comparison of line 28 with >=
ShouldSwapRightGeq(h, c) ==
    IF h[c].right_neighbor = None THEN FALSE
    ELSE h[c].value >= h[h[c].right_neighbor].value

\* lines 21-28: Cell.should_swap_right
ShouldSwapRight(h, c) ==
    IF h[c].right_neighbor = None THEN FALSE
    ELSE h[c].value > h[h[c].right_neighbor].value

\* mutant: swap_with_right without line 48, the back pointer of the cell
\* beyond the pair
SwapWithRightNoBackLink(h, c) ==
    LET right == h[c].right_neighbor
        left_of_self == h[c].left_neighbor
        right_of_right == h[right].right_neighbor
        h1 == IF left_of_self # None
              THEN [h EXCEPT ![left_of_self].right_neighbor = right] ELSE h
        h3 == [h1 EXCEPT ![right].left_neighbor = left_of_self]
        h4 == [h3 EXCEPT ![right].right_neighbor = c]
        h5 == [h4 EXCEPT ![c].left_neighbor = right]
    IN  IF h[c].right_neighbor = None THEN h
        ELSE [h5 EXCEPT ![c].right_neighbor = right_of_right]

\* lines 30-56: Cell.swap_with_right, one pointer assignment after the other
SwapWithRight(h, c) ==
    LET right == h[c].right_neighbor
        left_of_self == h[c].left_neighbor
        right_of_right == h[right].right_neighbor
        h1 == IF left_of_self # None
              THEN [h EXCEPT ![left_of_self].right_neighbor = right] ELSE h
        h2 == IF right_of_right # None
              THEN [h1 EXCEPT ![right_of_right].left_neighbor = c] ELSE h1
        h3 == [h2 EXCEPT ![right].left_neighbor = left_of_self]
        h4 == [h3 EXCEPT ![right].right_neighbor = c]
        h5 == [h4 EXCEPT ![c].left_neighbor = right]
    IN  IF h[c].right_neighbor = None THEN h
        ELSE [h5 EXCEPT ![c].right_neighbor = right_of_right]

\* what never changes while a sequential file runs
seqfixed == << values, marked, value, stubborn, lock, site >>

\* the bookkeeping at the start of a run; e is what the previous run ended with
NewHistory(e) ==
    [swaps |-> 0, passes |-> 0, late |-> 0, quiet |-> FALSE, start |-> << >>,
     default |-> FALSE, earlier |-> e]

\* before CellTissue(values) is called, in either file
SeqInit ==
    /\ values \in SeqInputs
    /\ site \in {Plain, Stubborn}
    /\ marked \in (IF site = Stubborn THEN SUBSET (DOMAIN values) ELSE {{}})
    /\ max_iterations \in {NoLimit} \cup (1 .. MaxIter)
    /\ verbose \in BOOLEAN
    /\ cells = << >>
    /\ head = None
    /\ size = 0
    /\ current = None
    /\ swapped = FALSE
    /\ iterations = 0
    /\ k = 0
    /\ outcome = FALSE
    /\ snap = << >>
    /\ history = NewHistory(<< >>)
    /\ mpc = "s_new"
    /\ value = << >>
    /\ stubborn = << >>
    /\ lock = {}

\* cell_bubble_sort.py lines 65-83: CellTissue.__init__
CbsInit ==
    /\ site = Plain
    /\ mpc = "s_new"
    /\ IF DOMAIN values = {}
       THEN /\ head' = None
            /\ size' = 0
            /\ cells' = << >>
       ELSE /\ cells' = LinkCells(values)
            /\ head' = 0
            /\ size' = Cardinality(DOMAIN values)
    /\ mpc' = "s_sort"
    /\ UNCHANGED << seqfixed, current, swapped, iterations, max_iterations,
                    verbose, k, outcome, snap, history >>

\* cell_bubble_sort.py lines 140-143: the default of max_iterations
CbsSortEnter ==
    /\ site = Plain
    /\ mpc = "s_sort"
    /\ max_iterations' =
           IF max_iterations = NoLimit THEN size * size ELSE max_iterations
    /\ history' = [history EXCEPT !.default = (max_iterations = NoLimit)]
    /\ iterations' = 0
    /\ k' = 0
    /\ mpc' = "s_for"
    /\ UNCHANGED << seqfixed, cells, head, size, current, swapped, verbose,
                    outcome, snap >>

\* cell_bubble_sort.py line 145 and lines 109-110: the next i of
\* range(max_iterations) and the entry of sort_step(), or the end of the range
CbsFor ==
    /\ site = Plain
    /\ mpc = "s_for"
    /\ IF k < max_iterations
       THEN /\ swapped' = FALSE
            /\ current' = head
            /\ history' = [history EXCEPT
                              !.swaps = 0,
                              !.passes = @ + 1,
                              !.late = IF history.quiet THEN @ + 1 ELSE @,
                              !.start = ToList(cells, head)]
            /\ mpc' = "s_while"
       ELSE /\ mpc' = "s_return"
            /\ UNCHANGED << swapped, current, history >>
    /\ UNCHANGED << seqfixed, cells, head, size, iterations, max_iterations,
                    verbose, k, outcome, snap >>

\* cell_bubble_sort.py lines 112-127: one turn of the while loop of
\* sort_step(), or its return when the loop condition fails
CbsSortStep ==
    /\ site = Plain
    /\ mpc = "s_while"
    /\ IF current # None /\ cells[current].right_neighbor # None
       THEN IF ShouldSwapRight(cells, current)
            THEN /\ head' = IF current = head
                            THEN cells[current].right_neighbor ELSE head
                 /\ cells' = SwapWithRight(cells, current)
                 /\ swapped' = TRUE
                 /\ current' = cells'[current].right_neighbor
                 /\ history' = [history EXCEPT !.swaps = @ + 1]
                 /\ UNCHANGED << mpc, outcome >>
            ELSE /\ current' = cells[current].right_neighbor
                 /\ UNCHANGED << head, cells, swapped, history, mpc, outcome >>
       ELSE /\ outcome' = swapped
            /\ mpc' = "s_stepped"
            /\ UNCHANGED << head, cells, swapped, current, history >>
    /\ UNCHANGED << seqfixed, size, iterations, max_iterations, verbose, k,
                    snap >>

\* cell_bubble_sort.py lines 149-156: what sort() does with the result
CbsAfterStep ==
    /\ site = Plain
    /\ mpc = "s_stepped"
    /\ iterations' = k + 1
    /\ IF ~outcome
       THEN /\ mpc' = "s_return"
            /\ k' = k
       ELSE /\ mpc' = "s_for"
            /\ k' = k + 1
    /\ history' = [history EXCEPT !.quiet = @ \/ ~outcome]
    /\ UNCHANGED << seqfixed, cells, head, size, current, swapped,
                    max_iterations, verbose, outcome, snap >>

\* cell_bubble_sort.py line 161, and the to_list() the caller takes after it
CbsReturn ==
    /\ site = Plain
    /\ mpc = "s_return"
    /\ snap' = ToList(cells, head)
    /\ mpc' = "s_done"
    /\ UNCHANGED << seqfixed, cells, head, size, current, swapped, iterations,
                    max_iterations, verbose, k, outcome, history >>

\* ---- stubborn_cell_bubble_sort.py ----

\* lines 51-57: the cells of the list, none stubborn, linked left to right
LinkStubbornCells(vs) ==
    LET n == Cardinality(DOMAIN vs)
    IN  [c \in DOMAIN vs |->
            [value |-> vs[c],
             stubborn |-> FALSE,
             prev |-> IF c > 0 THEN c - 1 ELSE None,
             next |-> IF c < n - 1 THEN c + 1 ELSE None]]

\* mutant: should_swap_next without the test of lines 17-18
ShouldSwapNextAnyCell(h, c) ==
    IF h[c].next = None THEN FALSE
    ELSE h[c].value > h[h[c].next].value

\* lines 14-19: CellWithStubborn.should_swap_next
ShouldSwapNext(h, c) ==
    IF h[c].next = None THEN FALSE
    ELSE IF h[c].stubborn THEN FALSE
    ELSE h[c].value > h[h[c].next].value

\* lines 21-46: CellWithStubborn.swap_with_next, one assignment after the other
SwapWithNext(h, c) ==
    LET next_to_self == h[c].next
        next_to_next == h[next_to_self].next
        prev_to_self == h[c].prev
        h1 == IF prev_to_self # None
              THEN [h EXCEPT ![prev_to_self].next = next_to_self] ELSE h
        h2 == IF next_to_next # None
              THEN [h1 EXCEPT ![next_to_next].prev = c] ELSE h1
        h3 == [h2 EXCEPT ![next_to_self].prev = prev_to_self]
        h4 == [h3 EXCEPT ![next_to_self].next = c]
        h5 == [h4 EXCEPT ![c].prev = next_to_self]
    IN  IF h[c].next = None THEN h
        ELSE [h5 EXCEPT ![c].next = next_to_next]

\* lines 108-113: the `break` stands inside `if verbose:`, so a pass without a
\* swap ends the loop only when verbose is true
BreakOnQuiet(v) == v

\* lines 50-60: CellTissue.__init__; cells[0] raises IndexError on an empty list
ScbsInit ==
    /\ site = Stubborn
    /\ mpc = "s_new"
    /\ cells' = LinkStubbornCells(values)
    /\ IF DOMAIN values = {}
       THEN /\ mpc' = "error"
            /\ UNCHANGED << head, size >>
       ELSE /\ head' = 0
            /\ size' = Cardinality(DOMAIN values)
            /\ mpc' = "s_mark"
    /\ UNCHANGED << seqfixed, current, swapped, iterations, max_iterations,
                    verbose, k, outcome, snap, history >>

\* lines 132-137: get_cell_at(i).stubborn = True for the chosen cells
ScbsMark ==
    /\ site = Stubborn
    /\ mpc = "s_mark"
    /\ cells' = [c \in DOMAIN cells |->
                    [cells[c] EXCEPT !.stubborn = (c \in marked)]]
    /\ mpc' = "s_sort"
    /\ UNCHANGED << seqfixed, head, size, current, swapped, iterations,
                    max_iterations, verbose, k, outcome, snap, history >>

\* lines 103-105: the default of max_iterations
ScbsSortEnter ==
    /\ site = Stubborn
    /\ mpc = "s_sort"
    /\ max_iterations' =
           IF max_iterations = NoLimit \/ max_iterations = 0
           THEN size * size ELSE max_iterations
    /\ history' = [history EXCEPT !.default = (max_iterations = NoLimit)]
    /\ iterations' = 0
    /\ k' = 0
    /\ mpc' = "s_for"
    /\ UNCHANGED << seqfixed, cells, head, size, current, swapped, verbose,
                    outcome, snap >>

\* line 107 and lines 86-87: the next i of range(max_iterations) and the entry
\* of sort_step(), or the end of the range
ScbsFor ==
    /\ site = Stubborn
    /\ mpc = "s_for"
    /\ IF k < max_iterations
       THEN /\ swapped' = FALSE
            /\ current' = head
            /\ history' = [history EXCEPT
                              !.swaps = 0,
                              !.passes = @ + 1,
                              !.late = IF history.quiet THEN @ + 1 ELSE @,
                              !.start = ToList(cells, head)]
            /\ mpc' = "s_while"
       ELSE /\ mpc' = "s_return"
            /\ UNCHANGED << swapped, current, history >>
    /\ UNCHANGED << seqfixed, cells, head, size, iterations, max_iterations,
                    verbose, k, outcome, snap >>

\* lines 89-100: one turn of the while loop of sort_step(), or its return;
\* after a swap `current` is kept (the cell has moved one place on)
ScbsSortStep ==
    /\ site = Stubborn
    /\ mpc = "s_while"
    /\ IF current # None /\ cells[current].next # None
       THEN IF ShouldSwapNext(cells, current)
            THEN /\ head' = IF current = head
                            THEN cells[current].next ELSE head
                 /\ cells' = SwapWithNext(cells, current)
                 /\ swapped' = TRUE
                 /\ history' = [history EXCEPT !.swaps = @ + 1]
                 /\ UNCHANGED << current, mpc, outcome >>
            ELSE /\ current' = cells[current].next
                 /\ UNCHANGED << head, cells, swapped, history, mpc, outcome >>
       ELSE /\ outcome' = swapped
            /\ mpc' = "s_stepped"
            /\ UNCHANGED << head, cells, swapped, current, history >>
    /\ UNCHANGED << seqfixed, size, iterations, max_iterations, verbose, k,
                    snap >>

\* lines 108-118: what sort() does with the result
ScbsAfterStep ==
    /\ site = Stubborn
    /\ mpc = "s_stepped"
    /\ IF ~outcome /\ BreakOnQuiet(verbose)
       THEN /\ iterations' = k
            /\ mpc' = "s_return"
            /\ k' = k
       ELSE /\ iterations' = k + 1
            /\ mpc' = "s_for"
            /\ k' = k + 1
    /\ history' = [history EXCEPT !.quiet = @ \/ ~outcome]
    /\ UNCHANGED << seqfixed, cells, head, size, current, swapped,
                    max_iterations, verbose, outcome, snap >>

\* line 122, and the to_list() the caller takes after it
ScbsReturn ==
    /\ site = Stubborn
    /\ mpc = "s_return"
    /\ snap' = ToList(cells, head)
    /\ mpc' = "s_done"
    /\ UNCHANGED << seqfixed, cells, head, size, current, swapped, iterations,
                    max_iterations, verbose, k, outcome, history >>

\* lines 131-138 once more: the same list, marking and max_iterations sorted
\* again with the other value of verbose; what the first run ended with is kept
ScbsRerun ==
    /\ site = Stubborn
    /\ mpc = "s_done"
    /\ history.earlier = << >>
    /\ history' = NewHistory(<< [passes |-> history.passes,
                                 iterations |-> iterations,
                                 list |-> snap,
                                 late |-> history.late] >>)
    /\ verbose' = ~verbose
    /\ max_iterations' = IF history.default THEN NoLimit ELSE max_iterations
    /\ cells' = << >>
    /\ head' = None
    /\ size' = 0
    /\ current' = None
    /\ swapped' = FALSE
    /\ iterations' = 0
    /\ k' = 0
    /\ outcome' = FALSE
    /\ snap' = << >>
    /\ mpc' = "s_new"
    /\ UNCHANGED seqfixed

SeqNext ==
    \/ CbsInit
    \/ CbsSortEnter
    \/ CbsFor
    \/ CbsSortStep
    \/ CbsAfterStep
    \/ CbsReturn
    \/ ScbsInit
    \/ ScbsMark
    \/ ScbsSortEnter
    \/ ScbsFor
    \/ ScbsSortStep
    \/ ScbsAfterStep
    \/ ScbsReturn
    \/ ScbsRerun

SeqSpec == SeqInit /\ [][SeqNext]_vars

\* C22: in cell_bubble_sort, sort() with the default max_iterations ends with
\* to_list() non-decreasing and a permutation of the input, for every input
\* list, the empty one and lists with duplicates included; and sort_step()
\* returns True exactly when the pass made at least one swap, which is exactly
\* when the list the pass started from was not sorted.
C22_PlainSortSorts ==
    site = Plain =>
        /\ (mpc = "s_done" /\ history.default) =>
              /\ IsSortedSeq(snap)
              /\ Len(snap) = Len(InputSeq)
              /\ SameMultiset(snap, InputSeq)
        /\ mpc = "s_stepped" =>
              /\ outcome <=> history.swaps > 0
              /\ ~outcome <=> IsSortedSeq(history.start)

\* C22 witness: a full-length list in non-increasing order, with a duplicate,
\* sorted by the default sort() in more than two passes
C22_Witness ==
    /\ site = Plain
    /\ mpc = "s_done"
    /\ history.default
    /\ Len(snap) = MaxLen
    /\ \A p \in 1 .. (MaxLen - 1) : InputSeq[p] >= InputSeq[p + 1]
    /\ InputSeq[1] = MaxVal
    /\ InputSeq[MaxLen] = 1
    /\ history.passes > 2

\* the doubly linked list h with head hd is well formed and has n cells: the
\* head has no left/prev neighbour, the back pointer of every right/next
\* neighbour is the cell itself, and the walk from the head meets each of the
\* n cells exactly once
WellFormed(h, hd, n) ==
    LET w == WalkFrom(h, hd, MaxLen + 1)
    IN  /\ (n = 0) <=> (hd = None)
        /\ hd # None => LeftOf(h, hd) = None
        /\ \A c \in DOMAIN h :
              RightOf(h, c) # None => LeftOf(h, RightOf(h, c)) = c
        /\ Len(w) = n
        /\ \A p, q \in 1 .. Len(w) : w[p] = w[q] => p = q
        /\ {w[p] : p \in 1 .. Len(w)} = DOMAIN h

\* C23: in both sequential files the list is well formed after construction,
\* after every swap and after every sort_step pass.
C23_ListWellFormed ==
    mpc \in {"s_mark", "s_sort", "s_for", "s_while", "s_stepped", "s_return",
             "s_done"} =>
        WellFormed(cells, head, size)

\* C23 witness, cell_bubble_sort: a swap has just been made in the middle of
\* the list, with a cell on either side of the pair
C23_Witness ==
    /\ site = Plain
    /\ mpc = "s_while"
    /\ Len(history.start) = MaxLen
    /\ history.start[1] <= history.start[2]
    /\ history.start[2] > history.start[3]
    /\ history.swaps = 1
    /\ current # None
    /\ LeftOf(cells, LeftOf(cells, LeftOf(cells, current))) = head

\* C24: in stubborn_cell_bubble_sort, sort() makes no pass after one that
\* made no swap, and the verbose flag changes nothing: the two runs on the
\* same list, marking and max_iterations, one with each value of verbose,
\* make the same number of passes, return the same count and leave the same
\* list.
C24_VerboseIrrelevant ==
    site = Stubborn =>
        /\ history.late = 0
        /\ (mpc = "s_done" /\ history.earlier # << >>) =>
              /\ history.earlier[1].passes = history.passes
              /\ history.earlier[1].iterations = iterations
              /\ history.earlier[1].list = snap

\* the distance of cell c from the head of list h, the head being at 0
DistanceFromHead(h, hd, c) ==
    LET w == WalkFrom(h, hd, MaxLen + 1)
    IN  (CHOOSE p \in 1 .. Len(w) : w[p] = c) - 1

\* C25: in stubborn_cell_bubble_sort a stubborn cell never swaps with its next
\* neighbour: the cell that swaps is never stubborn. So through all passes of
\* sort() a stubborn cell's distance from the head never grows, it shrinks
\* only one place at a time, when a larger non-stubborn cell passes over it,
\* and a stubborn cell at the head stays the head.
C25_StubbornNeverMovesBack ==
    [][(site = Stubborn /\ mpc \in {"s_sort", "s_for", "s_while", "s_stepped",
                                    "s_return"}) =>
          /\ cells' # cells => ~cells[current].stubborn
          /\ \A c \in DOMAIN cells :
                cells[c].stubborn =>
                    LET d == DistanceFromHead(cells, head, c)
                        e == DistanceFromHead(cells', head', c)
                    IN  /\ cells'[c].stubborn
                        /\ e <= d
                        /\ head = c => head' = c
                        /\ e < d =>
                              /\ e = d - 1
                              /\ cells'[c].next = current
                              /\ ~cells[current].stubborn
                              /\ cells[current].value > cells[c].value]_vars

\* C25 witness: a pass is under way in which a stubborn cell has been passed
\* over, while the stubborn cell that started at the head is still the head
C25_Witness ==
    /\ site = Stubborn
    /\ mpc = "s_while"
    /\ head = 0
    /\ cells[head].stubborn
    /\ \E c \in DOMAIN cells :
          /\ cells[c].stubborn
          /\ DistanceFromHead(cells, head, c) < c

====
